---- MODULE Spec2Model ----
(* bevy-tetris: the brick systems (src/src/brick.rs), the score system        *)
(* (src/src/score.rs) and the Gaming/GameOver state (src/src/app_state.rs),   *)
(* run frame by frame the way the Bevy main schedule runs them.               *)
EXTENDS Integers, Sequences, FiniteSets, Bags, TLC

VARIABLES app_state,    \* State<AppState>
          next_state,   \* NextState<AppState>: "None" or the requested state
          brick_state,  \* resource BrickState
          moveable,     \* BrickPos of the entities With<BrickMoveable>, in query order
          stable,       \* bag of BrickPos of the entities Without<BrickMoveable>
          score,        \* resource Score
          ev_spawn,     \* Events<SpawnEvent>: unread events, [old, new] buffers
          ev_stable,    \* Events<StableEvent>
          ev_newpos,    \* Events<NewPosEvent>: payloads
          ev_check,     \* Events<FullLineCheckEvent>
          ev_remove,    \* Events<FullLineRemoveEvent>: payloads
          cmd_spawn,    \* Commands of brick_gen not yet applied: cells to spawn
          cmd_lock,     \* Commands of brick_stable not yet applied
          cmd_despawn,  \* Commands of restart not yet applied
          keys,         \* Input<KeyCode>::just_pressed as read in this frame
          ticked,       \* FallTimer finished as read in this frame
          pc,           \* schedule of the frame being run
          ran,          \* systems of Update that have run in this frame
          frame,        \* number of frames completed
          cleared,      \* history: the row counts of the FullLineRemoveEvents sent
          run           \* history: the accepted commands repeated since the last other move

vars == <<app_state, next_state, brick_state, moveable, stable, score,
          ev_spawn, ev_stable, ev_newpos, ev_check, ev_remove,
          cmd_spawn, cmd_lock, cmd_despawn, keys, ticked, pc, ran, frame,
          cleared, run>>

-----------------------------------------------------------------------------
(* Board geometry and spawn anchor (brick.rs 41-53) *)
BOARD_WIDTH == 10
BOARD_HEIGHT == 20
SPAWN_X == (BOARD_WIDTH \div 2) - 2
SPAWN_Y == BOARD_HEIGHT - 2

(* Bounds of the exploration: frames of play, frames of the scoring runs *)
MaxFrames == 3
MaxScoreFrames == 6

-----------------------------------------------------------------------------
(* BrickPos and its arithmetic: a position is <<x, y>> *)
BrickPos(x, y) == <<x, y>>
PosAdd(p, q) == <<p[1] + q[1], p[2] + q[2]>>

(* BRICK_TYPE_ARRAY: kinds 1..7 are O, I, J, L, S, Z, T (index 0..6 in the  *)
(* source); shapes are numbered from 0 as in the source.                      *)
BRICK_TYPE_ARRAY ==
  << << <<<<1,0>>, <<1,1>>, <<2,0>>, <<2,1>>>> >>,
     << <<<<0,1>>, <<1,1>>, <<2,1>>, <<3,1>>>>,
        <<<<2,0>>, <<2,1>>, <<2,2>>, <<2,3>>>> >>,
     << <<<<0,1>>, <<1,1>>, <<2,1>>, <<2,0>>>>,
        <<<<1,0>>, <<1,1>>, <<1,2>>, <<0,0>>>>,
        <<<<0,1>>, <<1,1>>, <<2,1>>, <<0,2>>>>,
        <<<<1,0>>, <<1,1>>, <<1,2>>, <<2,2>>>> >>,
     << <<<<0,1>>, <<1,1>>, <<2,1>>, <<0,0>>>>,
        <<<<1,0>>, <<1,1>>, <<1,2>>, <<0,2>>>>,
        <<<<0,1>>, <<1,1>>, <<2,1>>, <<2,2>>>>,
        <<<<1,0>>, <<1,1>>, <<1,2>>, <<2,0>>>> >>,
     << <<<<0,0>>, <<1,0>>, <<1,1>>, <<2,1>>>>,
        <<<<1,2>>, <<1,1>>, <<2,1>>, <<2,0>>>> >>,
     << <<<<0,1>>, <<1,1>>, <<1,0>>, <<2,0>>>>,
        <<<<2,2>>, <<2,1>>, <<1,1>>, <<1,0>>>> >>,
     << <<<<0,1>>, <<1,1>>, <<2,1>>, <<1,0>>>>,
        <<<<1,0>>, <<1,1>>, <<1,2>>, <<0,1>>>>,
        <<<<0,1>>, <<1,1>>, <<2,1>>, <<1,2>>>>,
        <<<<1,0>>, <<1,1>>, <<1,2>>, <<2,1>>>> >> >>

NumTypes == Len(BRICK_TYPE_ARRAY)
NumShapes(t) == Len(BRICK_TYPE_ARRAY[t + 1])
Shape(t, s) == BRICK_TYPE_ARRAY[t + 1][s + 1]

(* map a move over a list of positions *)
Moved(arr, mv) == [i \in 1..Len(arr) |-> PosAdd(arr[i], mv)]

(* is_legal with the right wall one column too far *)
is_legal_wide(brick_pos_arr_new, brick_stable_arr) ==
  \A i \in 1..Len(brick_pos_arr_new) :
    LET p == brick_pos_arr_new[i] IN
      ~ ( \/ p[1] < 0
          \/ p[1] > BOARD_WIDTH
          \/ p[2] < 0
          \/ p[2] >= BOARD_HEIGHT
          \/ BagIn(p, brick_stable_arr) )

(* is_legal without the test against the stable bricks *)
is_legal_bounds_only(brick_pos_arr_new, brick_stable_arr) ==
  \A i \in 1..Len(brick_pos_arr_new) :
    LET p == brick_pos_arr_new[i] IN
      ~ ( \/ p[1] < 0
          \/ p[1] >= BOARD_WIDTH
          \/ p[2] < 0
          \/ p[2] >= BOARD_HEIGHT )

(* is_legal: every candidate inside the board and on no stable brick *)
is_legal(brick_pos_arr_new, brick_stable_arr) ==
  \A i \in 1..Len(brick_pos_arr_new) :
    LET p == brick_pos_arr_new[i] IN
      ~ ( \/ p[1] < 0
          \/ p[1] >= BOARD_WIDTH
          \/ p[2] < 0
          \/ p[2] >= BOARD_HEIGHT
          \/ BagIn(p, brick_stable_arr) )

-----------------------------------------------------------------------------
(* Event queues.  Each event type has one reader, so a queue keeps only the *)
(* events its reader has not read yet: those sent in the previous frame      *)
(* (old) and those sent in this frame (new).  Events::update, run in First,  *)
(* drops the old buffer and ages the new one.                                *)
NoEvents == [old |-> <<>>, new |-> <<>>]
Unread(ev) == ev.old \o ev.new
Send(ev, e) == [ev EXCEPT !.new = Append(@, e)]
EventsUpdate(ev) == [old |-> ev.new, new |-> <<>>]
(* EventReader::iter().next(): the first unread event is marked read *)
ReadOne(ev) ==
  IF ev.old # <<>> THEN [ev EXCEPT !.old = Tail(@)] ELSE [ev EXCEPT !.new = Tail(@)]

-----------------------------------------------------------------------------
(* Boards the game can be on when a piece is about to spawn.                 *)
Column(x, ys) == {<<x, y>> : y \in ys}
Row(y, xs) == {<<x, y>> : x \in xs}
Cols == 0..(BOARD_WIDTH - 1)
Rows == 0..(BOARD_HEIGHT - 1)
(* nothing locked *)
EmptyBoard == {}
(* row 0 full but for columns 4 and 5: two horizontal I pieces *)
GapBoard == Row(0, Cols \ {4, 5})
(* five vertical I pieces stacked in column 3 *)
TallBoard == Column(3, Rows)
(* vertical I pieces in columns 4 and 5 up to row 15 and an O piece on top   *)
NearTopBoard == Column(4, 0..17) \cup Column(5, 0..17)
(* the near-top board between full-height stacks of vertical I pieces in     *)
(* columns 0..2 and 7..9; columns 3 and 6 are empty, so no row is full        *)
BrimBoard ==
  NearTopBoard \cup UNION {Column(x, Rows) : x \in {0, 1, 2, 7, 8, 9}}
Boards == {EmptyBoard, GapBoard, TallBoard, NearTopBoard, BrimBoard}
(* the score is 0 at startup; two single clears on the way to the tall      *)
(* board leave 2                                                              *)
Starts == {<<b, 0>> : b \in Boards} \cup {<<TallBoard, 2>>}

(* no command has been accepted yet *)
NoRun == [cmd |-> "None", n |-> 0, cells |-> <<>>, index |-> 0,
          origin |-> BrickPos(0, 0)]

(* The state before a frame in which a piece spawns: after Startup          *)
(* (setup_spawn has sent a SpawnEvent, nothing is locked), or after the      *)
(* frame of a lock whose SpawnEvent is still unread, no brick moveable.      *)
Init ==
  /\ app_state = "Gaming"
  /\ next_state = "None"
  /\ brick_state = [brick_type_index |-> 0, brick_shape_index |-> 0,
                    brick_pos_origin |-> <<0, 0>>]
  /\ moveable = <<>>
  /\ \E st \in Starts : stable = SetToBag(st[1]) /\ score = st[2]
  /\ ev_spawn = Send(NoEvents, "SpawnEvent")
  /\ ev_stable = NoEvents
  /\ ev_newpos = NoEvents
  /\ ev_check = NoEvents
  /\ ev_remove = NoEvents
  /\ cmd_spawn = <<>>
  /\ cmd_lock = FALSE
  /\ cmd_despawn = FALSE
  /\ keys = {}
  /\ ticked = FALSE
  /\ pc = "first"
  /\ ran = {}
  /\ frame = 0
  /\ cleared = <<>>
  /\ run = NoRun

-----------------------------------------------------------------------------
(* restart without its run condition *)
RunIfRestartAlways(sys) ==
  CASE sys = "restart" -> TRUE
    [] sys = "score_up" -> TRUE
    [] OTHER -> app_state = "Gaming"

(* the systems of play without their run condition *)
RunIfPlayAlways(sys) ==
  CASE sys = "restart" -> app_state = "GameOver"
    [] OTHER -> TRUE

(* BrickPlugin::build and ScorePlugin::build: the run condition of a system *)
RunIf(sys) ==
  CASE sys = "restart" -> app_state = "GameOver"
    [] sys = "score_up" -> TRUE
    [] OTHER -> app_state = "Gaming"

(* First and StateTransition: the event buffers age, a requested state is    *)
(* entered, a new frame's input and timer are not read yet.                  *)
FrameStartUpTo(max_frames) ==
  /\ pc = "first"
  /\ frame < max_frames
  /\ ev_spawn' = EventsUpdate(ev_spawn)
  /\ ev_stable' = EventsUpdate(ev_stable)
  /\ ev_newpos' = EventsUpdate(ev_newpos)
  /\ ev_check' = EventsUpdate(ev_check)
  /\ ev_remove' = EventsUpdate(ev_remove)
  /\ app_state' = IF next_state # "None" THEN next_state ELSE app_state
  /\ next_state' = "None"
  /\ keys' = {}
  /\ ticked' = FALSE
  /\ ran' = {}
  /\ pc' = "update"
  /\ UNCHANGED <<brick_state, moveable, stable, score, cmd_spawn, cmd_lock,
                 cmd_despawn, frame, cleared, run>>

FrameStart == FrameStartUpTo(MaxFrames)

(* the points without the case of four rows *)
ScoreGainPlain(n) == 2 ^ (n - 1)

(* score.rs score_up: the points of one FullLineRemoveEvent *)
ScoreGain(n) == IF n = 4 THEN 2 ^ n ELSE 2 ^ (n - 1)

(* score.rs score_up; it touches nothing another Update system touches, so   *)
(* it is run first.                                                           *)
score_up ==
  /\ pc = "update"
  /\ "score_up" \notin ran
  /\ ran' = ran \cup {"score_up"}
  /\ IF Unread(ev_remove) = <<>>
       THEN UNCHANGED <<score, ev_remove>>
       ELSE /\ score' = score + ScoreGain(Head(Unread(ev_remove)))
            /\ ev_remove' = ReadOne(ev_remove)
  /\ UNCHANGED <<app_state, next_state, brick_state, moveable, stable,
                 ev_spawn, ev_stable, ev_newpos, ev_check,
                 cmd_spawn, cmd_lock, cmd_despawn, keys, ticked, pc, frame, cleared, run>>

(* a piece spawned without its last brick *)
SpawnCellsThree(t) ==
  [i \in 1..3 |-> BrickPos(SPAWN_X + Shape(t, 0)[i][1], SPAWN_Y + Shape(t, 0)[i][2])]

(* brick_gen: the cells of a new piece of type t *)
SpawnCells(t) ==
  [i \in 1..4 |-> BrickPos(SPAWN_X + Shape(t, 0)[i][1], SPAWN_Y + Shape(t, 0)[i][2])]

(* is_game_over set only when every spawn cell is taken *)
IsGameOverAll(brick_pos_spawn_arr, brick_pos_stable_arr) ==
  \A i \in 1..Len(brick_pos_spawn_arr) :
     BagIn(brick_pos_spawn_arr[i], brick_pos_stable_arr)

(* brick_gen: is_game_over *)
IsGameOver(brick_pos_spawn_arr, brick_pos_stable_arr) ==
  \E i \in 1..Len(brick_pos_spawn_arr) :
     BagIn(brick_pos_spawn_arr[i], brick_pos_stable_arr)

(* brick_gen, unordered against the other systems of Update *)
brick_gen ==
  /\ pc = "update"
  /\ RunIf("brick_gen")
  /\ "score_up" \in ran
  /\ "brick_gen" \notin ran
  /\ ran' = ran \cup {"brick_gen"}
  /\ IF Unread(ev_spawn) = <<>>
       THEN UNCHANGED <<ev_spawn, brick_state, cmd_spawn, next_state>>
       ELSE \E t \in 0..(NumTypes - 1) :
              /\ ev_spawn' = NoEvents
              /\ brick_state' = [brick_type_index |-> t, brick_shape_index |-> 0,
                                 brick_pos_origin |-> BrickPos(SPAWN_X, SPAWN_Y)]
              /\ cmd_spawn' = cmd_spawn \o SpawnCells(t)
              /\ next_state' = IF IsGameOver(SpawnCells(t), stable)
                                 THEN "GameOver" ELSE next_state
  /\ UNCHANGED <<app_state, moveable, stable, score, ev_stable, ev_newpos,
                 ev_check, ev_remove, cmd_lock, cmd_despawn, keys, ticked,
                 pc, frame, cleared, run>>

(* brick_auto_fall; the timer's tick is the frame's delta, so whether it has *)
(* finished in this frame is an input, drawn from timer_finished.             *)
AutoFallWith(timer_finished) ==
  /\ pc = "update"
  /\ RunIf("brick_auto_fall")
  /\ "score_up" \in ran
  /\ "brick_auto_fall" \notin ran
  /\ ran' = ran \cup {"brick_auto_fall"}
  /\ \E finished \in timer_finished :
       /\ ticked' = finished
       /\ IF ~finished \/ moveable = <<>>
            THEN UNCHANGED <<brick_state, ev_stable, ev_newpos>>
            ELSE LET brick_pos_move == BrickPos(0, -1)
                     brick_pos_new_arr == Moved(moveable, brick_pos_move)
                 IN IF ~is_legal(brick_pos_new_arr, stable)
                      THEN /\ ev_stable' = Send(ev_stable, "StableEvent")
                           /\ UNCHANGED <<brick_state, ev_newpos>>
                      ELSE /\ brick_state' =
                                [brick_state EXCEPT !.brick_pos_origin =
                                                      PosAdd(@, brick_pos_move)]
                           /\ ev_newpos' = Send(ev_newpos, brick_pos_new_arr)
                           /\ UNCHANGED ev_stable
  /\ UNCHANGED <<app_state, next_state, moveable, stable, score, ev_spawn,
                 ev_check, ev_remove, cmd_spawn, cmd_lock, cmd_despawn, keys,
                 pc, frame, cleared, run>>

brick_auto_fall == AutoFallWith(BOOLEAN)

(* the Space branch tested before the A and D branches *)
PressedCommandDropFirst(ks) ==
  IF "W" \in ks THEN "W"
  ELSE IF "S" \in ks THEN "S"
  ELSE IF "Space" \in ks THEN "Space"
  ELSE IF "A" \in ks THEN "A"
  ELSE IF "D" \in ks THEN "D"
  ELSE "None"

(* input: the one key the pass acts on, "None" when it returns at line 371 *)
PressedCommand(ks) ==
  IF "W" \in ks THEN "W"
  ELSE IF "S" \in ks THEN "S"
  ELSE IF "A" \in ks THEN "A"
  ELSE IF "D" \in ks THEN "D"
  ELSE IF "Space" \in ks THEN "Space"
  ELSE "None"

(* the loop of the Space branch left after its first round *)
MaxDownOnce(brick_move_arr, brick_stable_arr, max_down) ==
  LET down == max_down + 1 IN
    IF ~is_legal(Moved(brick_move_arr, BrickPos(0, -down)), brick_stable_arr)
      THEN max_down
      ELSE down

(* input: the loop of the Space branch, entered with max_down = 0 *)
RECURSIVE MaxDown(_, _, _)
MaxDown(brick_move_arr, brick_stable_arr, max_down) ==
  LET down == max_down + 1 IN
    IF ~is_legal(Moved(brick_move_arr, BrickPos(0, -down)), brick_stable_arr)
      THEN max_down
      ELSE MaxDown(brick_move_arr, brick_stable_arr, down)

(* a hard drop that stops one row short of the lowest legal position *)
MoveOfDropShort(cmd, brick_move_arr, brick_stable_arr) ==
  CASE cmd = "S" -> BrickPos(0, -1)
    [] cmd = "A" -> BrickPos(-1, 0)
    [] cmd = "D" -> BrickPos(1, 0)
    [] cmd = "Space" ->
         LET max_down == MaxDown(brick_move_arr, brick_stable_arr, 0)
         IN BrickPos(0, -(IF max_down > 1 THEN max_down - 1 ELSE max_down))

(* input: brick_pos_move of the move branch *)
MoveOf(cmd, brick_move_arr, brick_stable_arr) ==
  CASE cmd = "S" -> BrickPos(0, -1)
    [] cmd = "A" -> BrickPos(-1, 0)
    [] cmd = "D" -> BrickPos(1, 0)
    [] cmd = "Space" -> BrickPos(0, -MaxDown(brick_move_arr, brick_stable_arr, 0))

(* input: brick_shape_idx_new of the shift branch *)
NextShapeIndex(t, s) == (s + 1) % NumShapes(t)

(* the sets of keys that can be just pressed in one frame *)
KeySets == { {}, {"W"}, {"S"}, {"A"}, {"D"}, {"Space"}, {"R"},
             {"W", "S"}, {"W", "Space"}, {"S", "A"}, {"S", "Space"},
             {"A", "D"}, {"A", "Space"}, {"D", "Space"} }

(* a StableEvent for any rejected move *)
ForcesStableAny(brick_pos_move) == brick_pos_move # BrickPos(0, 0)

(* input: the rejected move that forces the piece to lock (line 381) *)
ForcesStable(brick_pos_move) == brick_pos_move[2] = -1

(* input: what one pass with the keys ks just pressed leaves in BrickState   *)
(* and in the StableEvent and NewPosEvent queues                              *)
InputResult(ks) ==
  LET cmd == PressedCommand(ks)
      same == [brick_state |-> brick_state, ev_stable |-> ev_stable,
               ev_newpos |-> ev_newpos]
  IN
  IF moveable = <<>> \/ cmd = "None"
    THEN same
  ELSE IF cmd = "W"
    THEN LET brick_shape_idx_new ==
               NextShapeIndex(brick_state.brick_type_index,
                              brick_state.brick_shape_index)
             brick_pos_new_arr ==
               Moved(Shape(brick_state.brick_type_index, brick_shape_idx_new),
                     brick_state.brick_pos_origin)
         IN IF ~is_legal(brick_pos_new_arr, stable)
              THEN same
              ELSE [same EXCEPT
                      !.brick_state.brick_shape_index = brick_shape_idx_new,
                      !.ev_newpos = Send(ev_newpos, brick_pos_new_arr)]
  ELSE LET brick_pos_move == MoveOf(cmd, moveable, stable)
           brick_pos_new_arr == Moved(moveable, brick_pos_move)
       IN IF ~is_legal(brick_pos_new_arr, stable)
            THEN IF ForcesStable(brick_pos_move)
                   THEN [same EXCEPT !.ev_stable = Send(ev_stable, "StableEvent")]
                   ELSE same
            ELSE [same EXCEPT
                    !.brick_state.brick_pos_origin = PosAdd(@, brick_pos_move),
                    !.ev_newpos = Send(ev_newpos, brick_pos_new_arr)]

(* History of input: the run of frames of the piece in which one and the     *)
(* same command was accepted, with no gravity tick, no other command and no  *)
(* rejected command in between (frames without any key do not end it): the   *)
(* command, the number n of times it was accepted, and the bricks, shape     *)
(* index and origin it started from.                                          *)
RunAfter(ks) ==
  LET cmd == PressedCommand(ks)
      accepted == InputResult(ks).ev_newpos # ev_newpos
  IN IF moveable = <<>> \/ ticked THEN NoRun
     ELSE IF cmd = "None" THEN run
     ELSE IF ~accepted THEN NoRun
     ELSE IF run.cmd = cmd THEN [run EXCEPT !.n = @ + 1]
     ELSE [cmd |-> cmd, n |-> 1, cells |-> moveable,
           index |-> brick_state.brick_shape_index,
           origin |-> brick_state.brick_pos_origin]

(* input, after brick_auto_fall, with the just-pressed keys among key_sets *)
InputWith(key_sets) ==
  /\ pc = "update"
  /\ RunIf("input")
  /\ "brick_auto_fall" \in ran
  /\ "input" \notin ran
  /\ ran' = ran \cup {"input"}
  /\ \E ks \in key_sets :
       /\ keys' = ks
       /\ brick_state' = InputResult(ks).brick_state
       /\ ev_stable' = InputResult(ks).ev_stable
       /\ ev_newpos' = InputResult(ks).ev_newpos
       /\ run' = RunAfter(ks)
  /\ UNCHANGED <<app_state, next_state, moveable, stable, score, ev_spawn,
                 ev_check, ev_remove, cmd_spawn, cmd_lock, cmd_despawn, ticked,
                 pc, frame, cleared>>

input == InputWith(KeySets)

(* brick_apply_new_pos: the positions after every unread NewPosEvent has     *)
(* been written over the moveable bricks in turn                              *)
RECURSIVE AppliedPos(_, _)
AppliedPos(bricks, events) ==
  IF events = <<>> THEN bricks
  ELSE AppliedPos([idx \in 1..Len(bricks) |-> Head(events)[idx]], Tail(events))

(* brick_apply_new_pos, after input *)
brick_apply_new_pos ==
  /\ pc = "update"
  /\ RunIf("brick_apply_new_pos")
  /\ "input" \in ran
  /\ "brick_apply_new_pos" \notin ran
  /\ ran' = ran \cup {"brick_apply_new_pos"}
  /\ IF moveable = <<>> \/ Unread(ev_newpos) = <<>>
       THEN UNCHANGED <<moveable, ev_newpos>>
       ELSE /\ moveable' = AppliedPos(moveable, Unread(ev_newpos))
            /\ ev_newpos' = NoEvents
  /\ UNCHANGED <<app_state, next_state, brick_state, stable, score, ev_spawn,
                 ev_stable, ev_check, ev_remove, cmd_spawn, cmd_lock,
                 cmd_despawn, keys, ticked, pc, frame, cleared, run>>

(* brick_stable, after brick_apply_new_pos *)
brick_stable ==
  /\ pc = "update"
  /\ RunIf("brick_stable")
  /\ "brick_apply_new_pos" \in ran
  /\ "brick_stable" \notin ran
  /\ ran' = ran \cup {"brick_stable"}
  /\ IF Unread(ev_stable) = <<>>
       THEN UNCHANGED <<ev_stable, cmd_lock, ev_spawn, ev_check>>
       ELSE /\ ev_stable' = NoEvents
            /\ cmd_lock' = (cmd_lock \/ moveable # <<>>)
            /\ ev_spawn' = Send(ev_spawn, "SpawnEvent")
            /\ ev_check' = Send(ev_check, "FullLineCheckEvent")
  /\ UNCHANGED <<app_state, next_state, brick_state, moveable, stable, score,
                 ev_newpos, ev_remove, cmd_spawn, cmd_despawn, keys, ticked,
                 pc, frame, cleared, run>>

(* restart, the one brick system of Update in GameOver *)
restart ==
  /\ pc = "update"
  /\ RunIf("restart")
  /\ "score_up" \in ran
  /\ "restart" \notin ran
  /\ ran' = ran \cup {"restart"}
  /\ \E ks \in KeySets :
       /\ keys' = ks
       /\ IF "R" \in ks
            THEN /\ cmd_despawn' = TRUE
                 /\ next_state' = "Gaming"
                 /\ ev_spawn' = Send(ev_spawn, "SpawnEvent")
            ELSE UNCHANGED <<cmd_despawn, next_state, ev_spawn>>
  /\ UNCHANGED <<app_state, brick_state, moveable, stable, score, ev_stable,
                 ev_newpos, ev_check, ev_remove, cmd_spawn, cmd_lock, ticked,
                 pc, frame, cleared, run>>

(* the systems Update runs in the current state *)
UpdateSystems ==
  {sys \in {"score_up", "brick_gen", "brick_auto_fall", "input",
            "brick_apply_new_pos", "brick_stable", "restart"} : RunIf(sys)}

RECURSIVE SeqToBag(_)
SeqToBag(arr) ==
  IF arr = <<>> THEN EmptyBag ELSE SetToBag({Head(arr)}) (+) SeqToBag(Tail(arr))

(* the end of Update: the Commands queued by its systems take effect.        *)
(* restart despawns every brick, brick_stable takes BrickMoveable off the    *)
(* bricks that had it when it ran, brick_gen spawns four moveable bricks.    *)
ApplyDeferred ==
  /\ pc = "update"
  /\ ran = UpdateSystems
  /\ stable' = IF cmd_despawn THEN EmptyBag
               ELSE IF cmd_lock THEN stable (+) SeqToBag(moveable)
               ELSE stable
  /\ moveable' = (IF cmd_despawn \/ cmd_lock THEN <<>> ELSE moveable) \o cmd_spawn
  /\ cmd_spawn' = <<>>
  /\ cmd_lock' = FALSE
  /\ cmd_despawn' = FALSE
  /\ pc' = "post"
  /\ UNCHANGED <<app_state, next_state, brick_state, score, ev_spawn,
                 ev_stable, ev_newpos, ev_check, ev_remove, keys, ticked, ran,
                 frame, cleared, run>>

(* a row counts as full as soon as one of its columns is locked *)
FullLinesOccupied(brick_stable_arr) ==
  {y \in Rows : \E x \in Cols : BagIn(BrickPos(x, y), brick_stable_arr)}

(* brick_fullline_clear: y_to_remove *)
FullLines(brick_stable_arr) ==
  {y \in Rows : \A x \in Cols : BagIn(BrickPos(x, y), brick_stable_arr)}

(* the bricks left stay where they are *)
NewPosMapInPlace(brick_stable_arr, y_to_remove, y, target_y) ==
  [p \in {q \in BagToSet(brick_stable_arr) : q[2] \notin y_to_remove} |-> p]

(* brick_fullline_clear: left_brick_pos_new_pos_map, built row by row from   *)
(* row y upwards with the next free row target_y                              *)
RECURSIVE NewPosMap(_, _, _, _)
NewPosMap(brick_stable_arr, y_to_remove, y, target_y) ==
  IF y >= BOARD_HEIGHT THEN <<>>
  ELSE IF y \in y_to_remove
    THEN NewPosMap(brick_stable_arr, y_to_remove, y + 1, target_y)
  ELSE LET here == {x \in Cols : BagIn(BrickPos(x, y), brick_stable_arr)}
           row_map == [p \in {BrickPos(x, y) : x \in here} |-> BrickPos(p[1], target_y)]
           pos_assigned == here # {}
       IN row_map @@ NewPosMap(brick_stable_arr, y_to_remove, y + 1,
                               IF pos_assigned THEN target_y + 1 ELSE target_y)

(* brick_fullline_clear: the bricks left once the full lines are despawned   *)
(* and the others have taken their new positions                              *)
Cleared(brick_stable_arr, y_to_remove) ==
  LET new_pos == NewPosMap(brick_stable_arr, y_to_remove, 0, 0)
      left == {p \in BagToSet(brick_stable_arr) : p[2] \notin y_to_remove}
      at(p) == IF p \in DOMAIN new_pos THEN new_pos[p] ELSE p
      targets == {at(p) : p \in left}
  IN [q \in targets |-> CopiesIn(CHOOSE p \in left : at(p) = q, brick_stable_arr)]

(* the end of the frame *)
FrameEnd ==
  /\ pc' = "first"
  /\ frame' = frame + 1

(* brick_fullline_clear, in PostUpdate while Gaming *)
brick_fullline_clear ==
  /\ pc = "post"
  /\ RunIf("brick_fullline_clear")
  /\ FrameEnd
  /\ IF Unread(ev_check) = <<>> \/ stable = EmptyBag
       THEN UNCHANGED <<ev_check, stable, ev_remove, cleared>>
       ELSE /\ ev_check' = NoEvents
            /\ LET y_to_remove == FullLines(stable) IN
                 IF y_to_remove = {}
                   THEN UNCHANGED <<stable, ev_remove, cleared>>
                   ELSE /\ stable' = Cleared(stable, y_to_remove)
                        /\ ev_remove' = Send(ev_remove, Cardinality(y_to_remove))
                        /\ cleared' = Append(cleared, Cardinality(y_to_remove))
  /\ UNCHANGED <<app_state, next_state, brick_state, moveable, score, ev_spawn,
                 ev_stable, ev_newpos, cmd_spawn, cmd_lock, cmd_despawn, keys,
                 ticked, ran, run>>

(* PostUpdate in GameOver: the run condition of brick_fullline_clear is false *)
PostUpdateGameOver ==
  /\ pc = "post"
  /\ ~RunIf("brick_fullline_clear")
  /\ FrameEnd
  /\ UNCHANGED <<app_state, next_state, brick_state, moveable, stable, score,
                 ev_spawn, ev_stable, ev_newpos, ev_check, ev_remove,
                 cmd_spawn, cmd_lock, cmd_despawn, keys, ticked, ran, cleared, run>>

Next ==
  \/ FrameStart
  \/ score_up
  \/ brick_gen
  \/ brick_auto_fall
  \/ input
  \/ brick_apply_new_pos
  \/ brick_stable
  \/ restart
  \/ ApplyDeferred
  \/ brick_fullline_clear
  \/ PostUpdateGameOver

Spec == Init /\ [][Next]_vars

TypeOK ==
  /\ app_state \in {"Gaming", "GameOver"}
  /\ next_state \in {"None", "Gaming", "GameOver"}
  /\ IsABag(stable)
  /\ Len(moveable) \in {0, 4}
  /\ score \in Nat

-----------------------------------------------------------------------------
(* Scoring runs.  The frames of play between two locks are left out: in each *)
(* frame, after score_up, the systems of play and the end of Update are      *)
(* stood for by their outcome on the board, a lock that leaves rows 0..n-1   *)
(* full (n = 0: no lock in this frame) with the FullLineCheckEvent that      *)
(* brick_stable sends; brick_fullline_clear and score_up run as they are.    *)
locks_completing(n) ==
  /\ pc = "update"
  /\ ran = {"score_up"}
  /\ RunIf("brick_stable")
  /\ stable = EmptyBag
  /\ IF n = 0
       THEN UNCHANGED <<stable, ev_check>>
       ELSE /\ stable' = SetToBag(UNION {Row(y, Cols) : y \in 0..(n - 1)})
            /\ ev_check' = Send(ev_check, "FullLineCheckEvent")
  /\ pc' = "post"
  /\ UNCHANGED <<app_state, next_state, brick_state, moveable, score, ev_spawn,
                 ev_stable, ev_newpos, ev_remove, cmd_spawn, cmd_lock,
                 cmd_despawn, keys, ticked, ran, frame, cleared, run>>

InitScore ==
  /\ Init
  /\ stable = EmptyBag
  /\ score = 0

NextScore ==
  \/ FrameStartUpTo(MaxScoreFrames)
  \/ score_up
  \/ \E n \in 0..4 : locks_completing(n)
  \/ brick_fullline_clear

SpecScore == InitScore /\ [][NextScore]_vars

-----------------------------------------------------------------------------
(* Line-clear runs.  Play is taken up in the middle of a game: a piece of    *)
(* any kind and rotation hangs at row HoverY over a low board with a well,   *)
(* where the player has moved it; it is dropped or falls, locks, and the     *)
(* rows it completes are cleared.                                             *)
MaxClearFrames == 3
HoverY == 6
(* rows 0..3 full but for column 0 *)
WellBoard == UNION {Row(y, Cols \ {0}) : y \in 0..3}
(* rows 1 and 2 full but for column 0 over a row 0 with a hole left at (9,0) *)
(* as well, and an I piece lying on them in row 3                             *)
StepBoard ==
  Row(0, Cols \ {0, 9}) \cup Row(1, Cols \ {0}) \cup Row(2, Cols \ {0})
    \cup Row(3, 1..4)
(* rows 0..2 full but for column 0, the vertical I piece of column 9        *)
(* reaching up to row 3                                                       *)
LedgeBoard == UNION {Row(y, Cols \ {0}) : y \in 0..2} \cup Row(3, {9})
ClearBoards == {WellBoard, StepBoard, LedgeBoard}
(* the just-pressed keys of a line-clear run *)
ClearKeys == { {}, {"Space"} }

InitClear ==
  /\ app_state = "Gaming"
  /\ next_state = "None"
  /\ \E t \in 0..(NumTypes - 1) : \E s \in 0..(NumShapes(t) - 1) :
       \E x \in -2..(BOARD_WIDTH - 1) :
         /\ brick_state = [brick_type_index |-> t, brick_shape_index |-> s,
                           brick_pos_origin |-> BrickPos(x, HoverY)]
         /\ moveable = Moved(Shape(t, s), BrickPos(x, HoverY))
         /\ is_legal(moveable, EmptyBag)
  /\ \E b \in ClearBoards : stable = SetToBag(b)
  /\ score = 0
  /\ ev_spawn = NoEvents
  /\ ev_stable = NoEvents
  /\ ev_newpos = NoEvents
  /\ ev_check = NoEvents
  /\ ev_remove = NoEvents
  /\ cmd_spawn = <<>>
  /\ cmd_lock = FALSE
  /\ cmd_despawn = FALSE
  /\ keys = {}
  /\ ticked = FALSE
  /\ pc = "first"
  /\ ran = {}
  /\ frame = 0
  /\ cleared = <<>>
  /\ run = NoRun

NextClear ==
  \/ FrameStartUpTo(MaxClearFrames)
  \/ score_up
  \/ brick_gen
  \/ brick_auto_fall
  \/ InputWith(ClearKeys)
  \/ brick_apply_new_pos
  \/ brick_stable
  \/ ApplyDeferred
  \/ brick_fullline_clear

SpecClear == InitClear /\ [][NextClear]_vars

-----------------------------------------------------------------------------
(* Falling runs.  From the start of a game on the empty board the fall timer *)
(* finishes in every frame, and the player presses nothing, A or D: the      *)
(* frames without a gravity tick, in which nothing changes unless a key is   *)
(* pressed, are left out.                                                     *)
MaxFallFrames == 21
FallKeys == { {}, {"A"}, {"D"} }

InitFall ==
  /\ Init
  /\ stable = EmptyBag
  /\ score = 0

NextFall ==
  \/ FrameStartUpTo(MaxFallFrames)
  \/ score_up
  \/ brick_gen
  \/ AutoFallWith({TRUE})
  \/ InputWith(FallKeys)
  \/ brick_apply_new_pos
  \/ brick_stable
  \/ ApplyDeferred
  \/ brick_fullline_clear

SpecFall == InitFall /\ [][NextFall]_vars

-----------------------------------------------------------------------------
(* Properties.  A step of a system of Update is recognised by the system     *)
(* entering ran; the predicates below are written from the board alone.      *)
Step(sys) == pc = "update" /\ sys \notin ran /\ sys \in ran'
EndOfUpdate == pc = "update" /\ pc' = "post"
StartOfFrame == pc = "first" /\ pc' = "update"
LockedCells == BagToSet(stable)
OnBoard(p) == p[1] >= 0 /\ p[1] < 10 /\ p[2] >= 0 /\ p[2] < 20
Free(cells) == \A i \in 1..Len(cells) : OnBoard(cells[i]) /\ cells[i] \notin LockedCells
Shifted(cells, dx, dy) == [i \in 1..Len(cells) |-> <<cells[i][1] + dx, cells[i][2] + dy>>]

CountIn(cells, p) == Cardinality({i \in 1..Len(cells) : cells[i] = p})
CellsOf(cells) == {cells[i] : i \in 1..Len(cells)}

C3_RestartResetsScore ==
  [][(EndOfUpdate /\ cmd_despawn) => score' = 0]_vars

(* C4: restart acts in GameOver only.  While Gaming nothing queues a despawn *)
(* or requests Gaming, and a frame whose only key is R leaves the piece, the *)
(* board, the score and every queue alone.  In GameOver a pass with R        *)
(* pressed queues the despawn of every brick, requests Gaming and sends one  *)
(* SpawnEvent; the end of Update leaves no locked and no moveable brick; the *)
(* next frame is Gaming with that one SpawnEvent unread, and at the end of   *)
(* its Update the piece spawned at (3,18) is the moveable piece and no       *)
(* GameOver is requested.                                                     *)
C4_RestartOnlyInGameOver ==
  [][ /\ app_state = "Gaming" => (~cmd_despawn' /\ next_state' # "Gaming")
      /\ (Step("input") /\ keys' = {"R"}) =>
           UNCHANGED <<app_state, next_state, brick_state, moveable, stable,
                       score, ev_spawn, ev_stable, ev_newpos, ev_check,
                       ev_remove, cmd_spawn, cmd_lock, cmd_despawn>>
      /\ Step("restart") =>
           /\ app_state = "GameOver"
           /\ IF "R" \in keys'
                THEN /\ cmd_despawn'
                     /\ next_state' = "Gaming"
                     /\ Len(Unread(ev_spawn')) = Len(Unread(ev_spawn)) + 1
                ELSE UNCHANGED <<cmd_despawn, next_state, ev_spawn>>
      /\ (EndOfUpdate /\ cmd_despawn) =>
           (stable' = EmptyBag /\ moveable' = <<>>)
      /\ (StartOfFrame /\ next_state = "Gaming") =>
           /\ app_state' = "Gaming"
           /\ stable = EmptyBag
           /\ moveable = <<>>
           /\ Len(Unread(ev_spawn')) = 1
      /\ (EndOfUpdate /\ app_state = "Gaming" /\ stable = EmptyBag
            /\ moveable = <<>>) =>
           /\ moveable' = Shifted(Shape(brick_state.brick_type_index, 0), 3, 18)
           /\ next_state = "None"
           /\ Unread(ev_spawn) = <<>>
    ]_vars

(* C4 witness: the piece spawned after a restart, on the board the restart   *)
(* emptied (the one start with score 2 is the tall board)                     *)
C4_Witness ==
  /\ app_state = "Gaming"
  /\ pc = "post"
  /\ score = 2
  /\ cleared = <<>>
  /\ stable = EmptyBag
  /\ Len(moveable) = 4

(* C5: in GameOver, until a restart has been queued, no step changes the     *)
(* locked bricks, the bricks of the materialised piece, its origin or its    *)
(* rotation index, whatever keys are pressed and whatever time passes.       *)
C5_GameOverFreezesBoard ==
  [][(app_state = "GameOver" /\ ~cmd_despawn) =>
        UNCHANGED <<stable, moveable, brick_state>>]_vars

(* C5 witness: a command key was pressed in GameOver with the piece that     *)
(* ended the game still on the board                                          *)
C5_Witness ==
  /\ app_state = "GameOver"
  /\ pc = "post"
  /\ keys \in {{"A"}, {"D"}, {"S"}, {"Space"}, {"W"}}
  /\ Len(moveable) = 4
  /\ stable # EmptyBag

(* the rotation states of the seven kinds, and the cells of the next one *)
StatesOf(t) == <<1, 2, 4, 4, 2, 2, 4>>[t + 1]
RotatedCells ==
  Shifted(Shape(brick_state.brick_type_index,
                (brick_state.brick_shape_index + 1)
                  % StatesOf(brick_state.brick_type_index)),
          brick_state.brick_pos_origin[1], brick_state.brick_pos_origin[2])
InputLeavesAllAlone ==
  UNCHANGED <<app_state, next_state, brick_state, moveable, stable, score,
              ev_spawn, ev_stable, ev_newpos, ev_check, ev_remove, cmd_spawn,
              cmd_lock, cmd_despawn>>

(* C6: a pass of input whose command is a move left, a move right or a       *)
(* rotation with illegal candidate cells changes nothing: origin, rotation   *)
(* index, cells, locked bricks, score and every queue (so no lock and no new *)
(* position is requested); the same holds for any keys when no piece is      *)
(* active.                                                                    *)
C6_RejectedCommandIsNoOp ==
  [][Step("input") =>
       /\ moveable = <<>> => InputLeavesAllAlone
       /\ (moveable # <<>> /\ keys' = {"A"} /\ ~Free(Shifted(moveable, -1, 0)))
            => InputLeavesAllAlone
       /\ (moveable # <<>> /\ keys' = {"D"} /\ ~Free(Shifted(moveable, 1, 0)))
            => InputLeavesAllAlone
       /\ (moveable # <<>> /\ keys' = {"W"} /\ ~Free(RotatedCells))
            => InputLeavesAllAlone
    ]_vars

(* C6 witness: a move left against a locked brick or the wall was rejected *)
C6_Witness ==
  /\ pc = "update"
  /\ "input" \in ran
  /\ "brick_apply_new_pos" \notin ran
  /\ keys = {"A"}
  /\ moveable # <<>>
  /\ ~Free(Shifted(moveable, -1, 0))
  /\ Unread(ev_newpos) = <<>>

(* the largest d such that the cells moved down by every k in 1..d are legal *)
DropDistance(cells) ==
  CHOOSE d \in 0..20 :
    /\ \A k \in 1..d : Free(Shifted(cells, 0, -k))
    /\ ~Free(Shifted(cells, 0, -(d + 1)))
SpawnedO == <<<<4, 18>>, <<4, 19>>, <<5, 18>>, <<5, 19>>>>
DroppedO == <<<<4, 0>>, <<4, 1>>, <<5, 0>>, <<5, 1>>>>

(* C7: a hard drop sends no StableEvent and queues no lock; with d the       *)
(* largest legal descent it lowers the origin by d and sends at most one     *)
(* NewPosEvent, carrying the cells d rows down (none only when d = 0 and the *)
(* piece stays where it is); once brick_apply_new_pos has run the piece is   *)
(* still active and cannot go one row further down.  An O piece dropped from *)
(* (3,18) on the empty board gets origin (3,0) and cells (4,0) (4,1) (5,0)   *)
(* (5,1).                                                                      *)
C7_HardDropLargestLegal ==
  [][ /\ (Step("input") /\ keys' = {"Space"} /\ moveable # <<>>) =>
           LET d == DropDistance(moveable) IN
             /\ ev_stable' = ev_stable
             /\ cmd_lock' = cmd_lock
             /\ brick_state' =
                  [brick_state EXCEPT !.brick_pos_origin =
                     <<brick_state.brick_pos_origin[1],
                       brick_state.brick_pos_origin[2] - d>>]
             /\ \/ Unread(ev_newpos') =
                     Append(Unread(ev_newpos), Shifted(moveable, 0, -d))
                \/ d = 0 /\ ev_newpos' = ev_newpos
             /\ (/\ brick_state.brick_type_index = 0
                 /\ brick_state.brick_pos_origin = <<3, 18>>
                 /\ moveable = SpawnedO
                 /\ stable = EmptyBag) =>
                  /\ brick_state'.brick_pos_origin = <<3, 0>>
                  /\ Unread(ev_newpos') = Append(Unread(ev_newpos), DroppedO)
      /\ (Step("brick_apply_new_pos") /\ keys = {"Space"} /\ moveable # <<>>) =>
           /\ Len(moveable') = 4
           /\ ~Free(Shifted(moveable', 0, -1))
    ]_vars

(* C7 witness: the O piece hard-dropped from the spawn anchor on the empty   *)
(* board                                                                       *)
C7_Witness ==
  /\ keys = {"Space"}
  /\ pc = "post"
  /\ stable = EmptyBag
  /\ brick_state = [brick_type_index |-> 0, brick_shape_index |-> 0,
                    brick_pos_origin |-> <<3, 0>>]
  /\ moveable = DroppedO

(* the pass of input did what a pass with the single key k does *)
ActsAsKey(k) ==
  /\ brick_state' = InputResult({k}).brick_state
  /\ ev_stable' = InputResult({k}).ev_stable
  /\ ev_newpos' = InputResult({k}).ev_newpos
CommandKeys == {"W", "S", "A", "D", "Space"}
(* the pressed key that comes first in the order given *)
FirstOf(order, ks) ==
  order[CHOOSE i \in 1..Len(order) :
          order[i] \in ks /\ \A j \in 1..(i - 1) : order[j] \notin ks]

(* C8 as claimed: of the keys pressed in one pass the one acted on is rotate *)
(* first, then soft drop or hard drop, then move left or move right.          *)
C8_DropBeforeHorizontal ==
  [][(Step("input") /\ moveable # <<>> /\ keys' \cap CommandKeys # {}) =>
        ActsAsKey(FirstOf(<<"W", "S", "Space", "A", "D">>, keys'))]_vars

(* C8 amended: of the keys pressed in one pass exactly one is acted on, the  *)
(* first pressed one in the order rotate, soft drop, move left, move right,  *)
(* hard drop; a rotation rejected as illegal leaves no other pressed key to  *)
(* act.                                                                        *)
C8_PriorityOrder ==
  [][(Step("input") /\ moveable # <<>> /\ keys' \cap CommandKeys # {}) =>
        /\ ActsAsKey(FirstOf(<<"W", "S", "A", "D", "Space">>, keys'))
        /\ ("W" \in keys' /\ ~Free(RotatedCells)) =>
             UNCHANGED <<brick_state, ev_stable, ev_newpos>>
    ]_vars

(* C8 witness: move left and hard drop pressed together with room below;     *)
(* the pass moved the piece left                                              *)
C8_Witness ==
  /\ pc = "update"
  /\ "input" \in ran
  /\ "brick_apply_new_pos" \notin ran
  /\ keys = {"A", "Space"}
  /\ moveable # <<>>
  /\ Free(Shifted(moveable, 0, -1))
  /\ Unread(ev_newpos) # <<>>
  /\ Unread(ev_newpos)[Len(Unread(ev_newpos))] = Shifted(moveable, -1, 0)

(* C9: is_legal is false exactly when some candidate cell has x < 0,         *)
(* x >= 10, y < 0 or y >= 20 or is the position of a locked brick; tried,    *)
(* whenever input is about to run, on the four cells of the piece moved by   *)
(* up to two cells each way, on the cells of its next rotation and on single *)
(* cells around the four walls.                                               *)
Probes == {-1, 0, 9, 10} \X {-1, 0, 19, 20}
Illegal(cells) ==
  \E i \in 1..Len(cells) :
     \/ cells[i][1] < 0
     \/ cells[i][1] >= 10
     \/ cells[i][2] < 0
     \/ cells[i][2] >= 20
     \/ (cells[i] \in DOMAIN stable /\ stable[cells[i]] >= 1)
C9_IsLegalIffInsideAndFree ==
  (pc = "update" /\ "brick_auto_fall" \in ran /\ "input" \notin ran) =>
  /\ \A p \in Probes : is_legal(<<p>>, stable) = ~Illegal(<<p>>)
  /\ moveable # <<>> =>
       /\ \A dx \in -2..2 : \A dy \in -2..2 :
            is_legal(Shifted(moveable, dx, dy), stable)
              = ~Illegal(Shifted(moveable, dx, dy))
       /\ is_legal(RotatedCells, stable) = ~Illegal(RotatedCells)

(* C9 witness: a piece on the floor beside a locked brick; one row down is   *)
(* off the board, one column aside is taken                                   *)
C9_Witness ==
  /\ pc = "update"
  /\ "brick_auto_fall" \in ran
  /\ "input" \notin ran
  /\ moveable # <<>>
  /\ \E i \in 1..4 : moveable[i][2] = 0
  /\ \E i \in 1..4 : \E dx \in {-1, 1} :
        <<moveable[i][1] + dx, moveable[i][2]>> \in LockedCells
  /\ ~is_legal(Shifted(moveable, 0, -1), stable)
  /\ is_legal(moveable, stable)

(* the points of the claim *)
Points == <<1, 2, 4, 16>>
RECURSIVE SumPoints(_)
SumPoints(ns) == IF ns = <<>> THEN 0 ELSE Points[Head(ns)] + SumPoints(Tail(ns))

(* C10: score_up adds 1, 2, 4 or 16 for the first unread FullLineRemoveEvent *)
(* of 1, 2, 3 or 4 rows and marks that one event read; the score changes in  *)
(* no other step; every event sent is queued and none is dropped unread, so  *)
(* that once all are read the score is the sum of the points of the events   *)
(* sent; after the clears 1, 1, 1, 2 it is 5.                                 *)
C10_ScorePerClear ==
  [][ /\ Step("score_up") =>
           IF Unread(ev_remove) = <<>>
             THEN UNCHANGED <<score, ev_remove>>
             ELSE /\ score' = score + Points[Head(Unread(ev_remove))]
                  /\ Unread(ev_remove') = Tail(Unread(ev_remove))
      /\ score' # score => Step("score_up")
      /\ StartOfFrame => ev_remove.old = <<>>
      /\ cleared' # cleared =>
           /\ Len(cleared') = Len(cleared) + 1
           /\ Unread(ev_remove') =
                Append(Unread(ev_remove), cleared'[Len(cleared')])
      /\ Unread(ev_remove') = <<>> => score' = SumPoints(cleared')
      /\ (cleared' = <<1, 1, 1, 2>> /\ Unread(ev_remove') = <<>>) => score' = 5
    ]_vars

(* C10 witness: three single clears and a double clear, all scored *)
C10_Witness ==
  /\ cleared = <<1, 1, 1, 2>>
  /\ Unread(ev_remove) = <<>>
  /\ score = 5

-----------------------------------------------------------------------------
(* Line clears, stated on the PostUpdate step of a Gaming frame.             *)
PostStep == pc = "post" /\ pc' = "first" /\ app_state = "Gaming"
FullRowsOf(cells) == {y \in 0..19 : \A x \in 0..9 : <<x, y>> \in cells}
(* the number of locked bricks of bag b in column x outside the rows gone *)
InColumn(b, x, gone) ==
  BagCardinality([p \in {q \in DOMAIN b : q[1] = x /\ q[2] \notin gone} |-> b[p]])

(* C11: a line clear removes exactly the locked cells of the full rows.  With *)
(* N cells locked and R the set of full rows, N - 10*|R| locked cells are     *)
(* left, every column keeps as many cells as it had outside R (a survivor     *)
(* keeps its x), no row is full afterwards and one event carries |R|; with    *)
(* no full row the board and the event queue are left as they are.            *)
C11_ClearRemovesFullRows ==
  [][ PostStep =>
      LET R == FullRowsOf(LockedCells)
          N == BagCardinality(stable)
      IN IF R = {}
           THEN stable' = stable /\ ev_remove' = ev_remove
           ELSE /\ BagCardinality(stable') = N - 10 * Cardinality(R)
                /\ \A x \in 0..9 : InColumn(stable', x, {}) = InColumn(stable, x, R)
                /\ FullRowsOf(BagToSet(stable')) = {}
                /\ ev_remove' = Send(ev_remove, Cardinality(R)) ]_vars

(* C11 witness: a clear has removed a full row and left other locked cells *)
C11_Witness ==
  /\ cleared # <<>>
  /\ pc = "first"
  /\ stable # EmptyBag

(* the rows that survive a clear, and the row a surviving row y ends in *)
LeftRows == {y \in 0..19 : y \notin FullRowsOf(LockedCells)
                           /\ \E x \in 0..9 : <<x, y>> \in LockedCells}
RankOf(y) == Cardinality({z \in LeftRows : z < y})

(* C12: after a line clear the surviving rows are packed on the floor in     *)
(* their order.  Each surviving cell keeps its x and its row goes to the     *)
(* number of surviving rows below it: rows y1 < y2 end in rows y1' < y2',    *)
(* the cells of one row stay in one row, no cell goes up, nothing else is    *)
(* on the board, and the occupied rows are exactly 0..m-1 for m surviving    *)
(* rows.                                                                      *)
C12_CompactionKeepsOrder ==
  [][ (PostStep /\ FullRowsOf(LockedCells) # {}) =>
      LET m == Cardinality(LeftRows)
          new(p) == <<p[1], RankOf(p[2])>>
          left == {p \in LockedCells : p[2] \in LeftRows}
      IN /\ \A p \in left : /\ CopiesIn(new(p), stable') = CopiesIn(p, stable)
                             /\ new(p)[2] <= p[2]
         /\ \A p \in left : \A q \in left :
              /\ p[2] < q[2] => new(p)[2] < new(q)[2]
              /\ p[2] = q[2] => new(p)[2] = new(q)[2]
         /\ BagToSet(stable') = {new(p) : p \in left}
         /\ {p[2] : p \in BagToSet(stable')} = 0..(m - 1) ]_vars

(* C12 witness: rows 1 and 2 of the step board were cleared from between     *)
(* row 0 and row 3, and row 3 has come down to row 1                          *)
C12_Witness ==
  /\ cleared = <<2>>
  /\ pc = "first"
  /\ BagToSet(stable) = Row(0, Cols \ {9}) \cup Row(1, 0..4)

(* C13: in every reachable state every locked cell lies inside the board and *)
(* no two locked bricks have the same coordinate.                             *)
C13_LockedCellsDistinctInside ==
  \A p \in LockedCells : OnBoard(p) /\ CopiesIn(p, stable) = 1

(* C14: the rotation index stays below the number of states of the kind,     *)
(* and when a piece of a kind with k states has been rotated k times in      *)
(* succession, each rotation accepted and no other move in between, its      *)
(* rotation index and its set of four cells are those it started from.       *)
C14_RotationCycle ==
  LET k == StatesOf(brick_state.brick_type_index) IN
    /\ brick_state.brick_shape_index < k
    /\ (pc = "post" /\ run.cmd = "W" /\ run.n = k) =>
         /\ brick_state.brick_shape_index = run.index
         /\ CellsOf(moveable) = CellsOf(run.cells)

(* C15: a hard drop that follows a hard drop, with no gravity tick and no    *)
(* other command in between, is accepted and moves the piece by 0 cells: its *)
(* one NewPosEvent carries the cells as they are, the origin and the         *)
(* rotation index stay, no lock is requested, and the cells written at the   *)
(* end of the frame are those the first hard drop left.                       *)
C15_HardDropIdempotent ==
  [][ /\ ( /\ Step("input")
           /\ moveable # <<>>
           /\ ~ticked
           /\ run.cmd = "Space"
           /\ PressedCommand(keys') = "Space" ) =>
          /\ MaxDown(moveable, stable, 0) = 0
          /\ run' = [run EXCEPT !.n = @ + 1]
          /\ brick_state' = brick_state
          /\ Unread(ev_newpos') = <<moveable>>
          /\ ev_stable' = ev_stable
      /\ ( /\ Step("brick_apply_new_pos")
           /\ run.cmd = "Space"
           /\ run.n >= 2 ) => moveable' = moveable ]_vars

(* C15 witness: the second of two hard drops has been applied to a piece     *)
(* that the first had brought down                                            *)
C15_Witness ==
  /\ pc = "post"
  /\ run.cmd = "Space"
  /\ run.n = 2
  /\ moveable # <<>>
  /\ moveable # run.cells
  /\ PressedCommand(keys) = "Space"

(* the cells of the shape the stored kind and rotation select, at the origin *)
ShapeAtOrigin ==
  CellsOf(Moved(Shape(brick_state.brick_type_index, brick_state.brick_shape_index),
                brick_state.brick_pos_origin))

(* C16: whenever a piece is active between two frames, its four cells are    *)
(* the stored origin plus the four offsets of the shape selected by the      *)
(* stored kind and rotation index.                                            *)
C16_CellsAreOriginPlusShape ==
  (pc = "first" /\ moveable # <<>>) => CellsOf(moveable) = ShapeAtOrigin

(* C17: in a frame in which the gravity tick fires with a legal descent and  *)
(* a move left or right is accepted as well, brick_apply_new_pos leaves the  *)
(* four cells where they were at the start of the frame displaced by (0,-1)  *)
(* and by the command's (-1,0) or (+1,0).                                     *)
C17_GravityAndMoveBothApplied ==
  [][ ( /\ Step("brick_apply_new_pos")
        /\ moveable # <<>>
        /\ ticked
        /\ is_legal(Shifted(moveable, 0, -1), stable)
        /\ PressedCommand(keys) \in {"A", "D"}
        /\ Len(Unread(ev_newpos)) = 2 ) =>
      LET dx == IF PressedCommand(keys) = "A" THEN -1 ELSE 1
      IN moveable' = Shifted(moveable, dx, -1) ]_vars

(* C18: a lock is merged, then its lines are cleared, then the next spawn is *)
(* tested.  The end of Update that carries out a lock leaves the locked      *)
(* cells on the board with the line check still unread, so that the scan of  *)
(* PostUpdate sees them; and a spawn is tested by brick_gen only when no     *)
(* lock is still waiting to be merged, no line check is still unread and no  *)
(* row of the board is full.                                                  *)
C18_LockThenClearThenSpawn ==
  [][ /\ (EndOfUpdate /\ cmd_lock) =>
          /\ Unread(ev_check') # <<>>
          /\ \A i \in 1..Len(moveable) : moveable[i] \in BagToSet(stable')
      /\ (Step("brick_gen") /\ Unread(ev_spawn) # <<>>) =>
          /\ ~cmd_lock
          /\ Unread(ev_check) = <<>>
          /\ FullRowsOf(LockedCells) = {} ]_vars

(* C19: every FullLineRemoveEvent carries a row count from 1 to 4.  A lock   *)
(* leaves at most four full rows for the scan of PostUpdate, every event     *)
(* sent and every event waiting to be read carries 1..4, and the score       *)
(* changes only in a step of score_up that reads such an event.               *)
C19_ClearCountOneToFour ==
  [][ /\ PostStep => Cardinality(FullRowsOf(LockedCells)) <= 4
      /\ \A i \in 1..Len(Unread(ev_remove')) : Unread(ev_remove')[i] \in 1..4
      /\ \A i \in 1..Len(cleared') : cleared'[i] \in 1..4
      /\ score' # score =>
           /\ Step("score_up")
           /\ Unread(ev_remove) # <<>>
           /\ Head(Unread(ev_remove)) \in 1..4
           /\ Unread(ev_remove') = Tail(Unread(ev_remove)) ]_vars

(* C19 witness: a vertical I piece has completed four rows at once and the   *)
(* event carrying 4 has been read for 16 points                               *)
C19_Witness ==
  /\ cleared = <<4>>
  /\ score = 16
  /\ Unread(ev_remove) = <<>>

(* C20: whenever the game is Gaming, with no GameOver requested, and a piece *)
(* is active, its four cells are inside the board and none of them is the    *)
(* position of a locked brick.                                                *)
C20_ActivePieceFree ==
  (app_state = "Gaming" /\ next_state # "GameOver" /\ moveable # <<>>) =>
    Free(moveable)

(* C21: a piece locks only while resting.  At the end of the Update that     *)
(* merges the four cells of the piece into the locked cells, the same cells  *)
(* one row down are illegal: one of them is below the floor or on a cell     *)
(* locked before.                                                             *)
C21_LocksOnlyAtRest ==
  [][ (EndOfUpdate /\ cmd_lock /\ moveable # <<>>) =>
        ~Free(Shifted(moveable, 0, -1)) ]_vars

(* C22: there are always 0 or 4 active cells, and every lock is followed by  *)
(* exactly one spawn.  brick_stable answers the StableEvents of a frame,     *)
(* one or two, with one SpawnEvent; never more than one SpawnEvent is        *)
(* unread; brick_gen spawns four bricks for it, and only when no piece is    *)
(* active or the active one is being locked; the Update that carries out a   *)
(* lock ends with the new piece alone or with no piece and the one           *)
(* SpawnEvent unread, and any other Update of play ends with one piece and   *)
(* no SpawnEvent unread.                                                      *)
C22_OnePieceOneSpawnPerLock ==
  [][ /\ Len(moveable') \in {0, 4}
      /\ Len(Unread(ev_spawn')) <= 1
      /\ (Step("brick_stable") /\ Unread(ev_stable) # <<>>) =>
           /\ Unread(ev_spawn') = Append(Unread(ev_spawn), "SpawnEvent")
           /\ Unread(ev_stable') = <<>>
      /\ (Step("brick_gen") /\ Unread(ev_spawn) # <<>>) =>
           /\ Len(cmd_spawn') = 4
           /\ Unread(ev_spawn') = <<>>
           /\ (moveable = <<>> \/ cmd_lock)
      /\ (EndOfUpdate /\ cmd_lock) =>
           \/ moveable' = cmd_spawn /\ Len(cmd_spawn) = 4 /\ Unread(ev_spawn) = <<>>
           \/ moveable' = <<>> /\ cmd_spawn = <<>> /\ Len(Unread(ev_spawn)) = 1
      /\ (EndOfUpdate /\ app_state = "Gaming" /\ ~cmd_lock) =>
           Len(moveable') = 4 /\ Unread(ev_spawn) = <<>> ]_vars

(* C22 witness: a failed gravity tick and a failed soft drop asked for the   *)
(* lock in one frame; the piece is locked and one spawn is waiting            *)
C22_Witness ==
  /\ pc = "post"
  /\ ticked
  /\ keys = {"S"}
  /\ moveable = <<>>
  /\ Unread(ev_spawn) = <<"SpawnEvent">>
  /\ Unread(ev_check) = <<"FullLineCheckEvent">>

(* C23: while gravity ticks keep firing every active piece locks, after at   *)
(* most 20 gravity ticks, whatever the player presses.  On a falling run the *)
(* first piece spawns in frame 0 and every later frame is a gravity tick:    *)
(* when 20 of them are over a piece has been locked; and a gravity tick on   *)
(* an active piece either asks for its lock or, with no key or a move left   *)
(* or right, has every cell one row lower once brick_apply_new_pos has run.  *)
C23_PieceLocksWithinTwentyTicks ==
  [][ /\ (pc' = "first" /\ frame' >= 21) => stable' # EmptyBag
      /\ ( /\ Step("brick_apply_new_pos")
           /\ ticked
           /\ moveable # <<>>
           /\ PressedCommand(keys) \in {"None", "A", "D"} ) =>
           \/ Unread(ev_stable) # <<>>
           \/ \A i \in 1..4 : moveable'[i][2] = moveable[i][2] - 1 ]_vars
====
